---- MODULE Spec2Model ----
(***************************************************************************)
(* Model of the continuous-learning-v2 instinct engine:                    *)
(*   scripts/instinct_decay.py  (run_decay, write_instinct_file)           *)
(*   scripts/instinct_learn.py  (run_learn and its detectors)              *)
(*                                                                         *)
(* Confidence values are integers in units of 1e-4 (0.78 is 7800), the     *)
(* precision run_decay rounds to.  Time is counted in ticks, TicksPerDay   *)
(* ticks to the day, so that fractions of a day can be told apart from     *)
(* whole days.  A directory is a function from the names of the files it   *)
(* holds to the list of instincts the file parses to.                      *)
(***************************************************************************)
EXTENDS Integers, Sequences, FiniteSets, TLC

VARIABLES
    personal_dir,   \* active collection: file name -> parsed instincts
    archived_dir,   \* archived collection: file name -> parsed instincts
    observations,   \* the observation log: a sequence of lines
    now,            \* the clock (datetime.now()), in ticks
    args,           \* arguments of a direct call of a pure function
    ret,            \* what the last operation computed, printed and returned
    runs            \* number of operations performed so far

vars == <<personal_dir, archived_dir, observations, now, args, ret, runs>>

---------------------------------------------------------------------------
(* Bounds of the model *)

TicksPerDay == 2        \* resolution of the clock
MaxNow == 1             \* ticks the clock may advance
MaxRuns == 2            \* operations in one behaviour
MaxCandidates == 3      \* length of a candidate list given to _deduplicate
MaxExisting == 2        \* length of an existing rule set given to _deduplicate
MaxTools == 4           \* tools used in one session given to the workflow detector
MaxJunkSessions == 2    \* sessions of a log into which one stray line is put
MaxJunkAt == 3          \* positions at which the stray line is put
MaxFailAt == 4          \* filesystem calls of a run among which one may fail

(* Units and program constants *)

Scale == 10000              \* round(x, 4): one unit is 1e-4
DaysPerWeek == 7            \* weeks_since = days / 7.0
decay_rate == 200           \* confidence_decay_rate default 0.02
min_confidence == 3000      \* min_confidence default 0.3
confidence_boost == 500     \* _deduplicate(confidence_boost=0.05)
initial_confidence == 5000  \* run_learn(initial_confidence=0.5)
default_min_occurrences == 3    \* _detect_repeated_workflows(min_occurrences=3)
MinWindow == 3              \* sliding windows of 3 ...
MaxWindow == 5              \* ... to 5 tools

---------------------------------------------------------------------------
(* Arithmetic helpers *)

Max(a, b) == IF a >= b THEN a ELSE b
Min(a, b) == IF a <= b THEN a ELSE b

\* n / d rounded to the nearest integer, ties to the even neighbour
\* (Python's round()); d > 0, n any integer.
RoundDiv(n, d) ==
    LET q == n \div d
        r == n % d
    IN  IF 2 * r < d THEN q
        ELSE IF 2 * r > d THEN q + 1
        ELSE IF q % 2 = 0 THEN q ELSE q + 1

\* The hundredths k for which the double nearest to (100k + 50) * 1e-4 lies
\* above the midpoint, so that '.2f' prints k + 1; for the others it prints k.
HalfUp ==
    {0, 2, 3, 5, 6, 8, 9, 11, 13, 16, 19, 22, 25, 26, 27, 31, 32, 33, 37, 38,
     39, 40, 44, 45, 46, 50, 51, 52, 53, 54, 55, 63, 64, 65, 66, 67, 68, 75,
     76, 77, 78, 79, 80, 87, 88, 89, 90, 91, 92, 93}

\* f'{value:.2f}' read back as a number: value to two decimals.
Format2f(value) ==
    LET k == value \div 100
        r == value % 100
    IN  IF r < 50 THEN 100 * k
        ELSE IF r > 50 THEN 100 * (k + 1)
        ELSE IF k \in HalfUp THEN 100 * (k + 1) ELSE 100 * k

---------------------------------------------------------------------------
(* Instincts and files *)

NoLastObserved == [kind |-> "missing", t |-> 0]
BadLastObserved == [kind |-> "unparseable", t |-> 0]
Iso(t) == [kind |-> "iso", t |-> t]

ManualContent == [pattern_type |-> "manual", evidence |-> "Do something useful."]

Instinct(id, confidence, last_observed) ==
    [id |-> id, confidence |-> confidence, last_observed |-> last_observed,
     content |-> ManualContent]

NoFiles == [n \in {} |-> <<>>]

\* filepath.write_text(output): the file now holds exactly `insts`.
WriteText(dir, name, insts) == [n \in DOMAIN dir \cup {name} |-> IF n = name THEN insts ELSE dir[n]]

\* src.unlink()
Unlink(dir, name) == [n \in DOMAIN dir \ {name} |-> dir[n]]

\* The file write_instinct_file leaves, as it parses: the one instinct, its
\* confidence printed with two decimals.
write_instinct_file(instinct) ==
    <<[instinct EXCEPT !.confidence = Format2f(instinct.confidence)]>>

\* Every file name of the model in the order sorted() gives them.
FileOrder ==
    <<"correction-edit-pattern.yaml", "correction-write-pattern.yaml",
      "error-then-fix-pattern.yaml", "low.yaml", "team.md",
      "workflow-edit-read-grep.yaml", "workflow-grep-read-edit.yaml">>

RECURSIVE SortedFrom(_, _)
SortedFrom(names, i) ==
    IF i > Len(FileOrder) THEN <<>>
    ELSE (IF FileOrder[i] \in names THEN <<FileOrder[i]>> ELSE <<>>)
         \o SortedFrom(names, i + 1)

\* sorted(set(glob *.yaml) | set(glob *.yml) | set(glob *.md))
SortedFiles(dir) == SortedFrom(DOMAIN dir, 1)

\* The ids of the rules a collection holds.
IdsIn(dir) == UNION {{dir[n][i].id : i \in DOMAIN dir[n]} : n \in DOMAIN dir}

\* The stored records of rule `id` in a collection (one per place it is stored).
Stored(dir, id) ==
    UNION {{dir[n][i] : i \in {j \in DOMAIN dir[n] : dir[n][j].id = id}} : n \in DOMAIN dir}

---------------------------------------------------------------------------
(* instinct_decay.run_decay *)

\* (now - last_obs).days: whole days, fractions of a day dropped (floor).
ElapsedDays(clock, last_obs) == (clock - last_obs.t) \div TicksPerDay

NewConf_unclamped(old_conf, days) ==
    RoundDiv(old_conf * DaysPerWeek - days * decay_rate, DaysPerWeek)

\* new_conf = max(round(old_conf - weeks_since * decay_rate, 4), 0.0)
\* with weeks_since = days / 7.0
NewConf(old_conf, days) ==
    Max(RoundDiv(old_conf * DaysPerWeek - days * decay_rate, DaysPerWeek), 0)

\* new_conf < min_confidence: the rule goes to `archived`, else to `decayed`.
BelowMinimum(new_conf) == new_conf < min_confidence

\* The body of the loop over parsed_list for one instinct: the item it
\* appends to `decayed` or `archived`, or nothing when it `continue`s.
Classify(filepath, inst, clock) ==
    IF inst.last_observed.kind # "iso" THEN <<>>
    ELSE LET days == ElapsedDays(clock, inst.last_observed)
             old_conf == inst.confidence
             new_conf == NewConf(old_conf, days)
         IN  IF days <= 0 THEN <<>>
             ELSE IF new_conf = old_conf THEN <<>>
             ELSE <<[file |-> filepath, instinct |-> inst, old |-> old_conf,
                     new |-> new_conf, archive |-> BelowMinimum(new_conf)]>>

RECURSIVE ScanInstincts(_, _, _)
ScanInstincts(filepath, parsed_list, clock) ==
    IF parsed_list = <<>> THEN <<>>
    ELSE Classify(filepath, Head(parsed_list), clock)
         \o ScanInstincts(filepath, Tail(parsed_list), clock)

RECURSIVE ScanFiles(_, _, _)
ScanFiles(files, dir, clock) ==
    IF files = <<>> THEN <<>>
    ELSE ScanInstincts(Head(files), dir[Head(files)], clock)
         \o ScanFiles(Tail(files), dir, clock)

\* The items of both lists, in the order the scan meets them.
Scan(dir, clock) == ScanFiles(SortedFiles(dir), dir, clock)

IsArchive(item) == item.archive
IsDecay(item) == ~item.archive

\* inst['confidence'] = item['new']
Updated(item) == [item.instinct EXCEPT !.confidence = item.new]

\* The filesystem calls of the persistence phase, in program order.
DecayOps(item) ==
    <<[call |-> "write", dir |-> "personal", file |-> item.file, inst |-> Updated(item)]>>
ArchiveOps(item) ==
    <<[call |-> "write", dir |-> "archived", file |-> item.file, inst |-> Updated(item)],
      [call |-> "unlink", dir |-> "personal", file |-> item.file, inst |-> Updated(item)]>>

RECURSIVE OpsOf(_)
OpsOf(items) ==
    IF items = <<>> THEN <<>>
    ELSE (IF Head(items).archive THEN ArchiveOps(Head(items)) ELSE DecayOps(Head(items)))
         \o OpsOf(Tail(items))

PersistOps(decayed, archived) == OpsOf(decayed) \o OpsOf(archived)

\* The disk on which no call fails.
NoFault == 0

\* One filesystem call.  unlink() of a file that is gone raises
\* FileNotFoundError; the call the disk refuses (the fail_at-th of the run)
\* raises OSError and changes nothing.  run_decay catches neither.
FsStep(op, fs) ==
    LET n == fs.calls + 1
        at == [fs EXCEPT !.calls = n]
    IN  IF n = fs.fail_at THEN [at EXCEPT !.status = "OSError"]
        ELSE IF op.call = "write" THEN
            IF op.dir = "personal"
            THEN [at EXCEPT !.personal = WriteText(fs.personal, op.file, write_instinct_file(op.inst))]
            ELSE [at EXCEPT !.archived = WriteText(fs.archived, op.file, write_instinct_file(op.inst))]
        ELSE IF op.file \in DOMAIN fs.personal
             THEN [at EXCEPT !.personal = Unlink(fs.personal, op.file)]
             ELSE [at EXCEPT !.status = "FileNotFoundError"]

RECURSIVE FsRun(_, _)
FsRun(ops, fs) ==
    IF ops = <<>> \/ fs.status # "ok" THEN fs
    ELSE FsRun(Tail(ops), FsStep(Head(ops), fs))

Persist_ignoring_dry_run(dry_run, decayed, archived, fs) ==
    FsRun(PersistOps(decayed, archived), fs)

\* dry_run returns before the persistence phase.
Persist(dry_run, decayed, archived, fs) ==
    IF dry_run THEN fs ELSE FsRun(PersistOps(decayed, archived), fs)

run_decay(dry_run, fail_at) ==
    /\ runs < MaxRuns
    /\ LET items == Scan(personal_dir, now)
           decayed == SelectSeq(items, IsDecay)
           archived == SelectSeq(items, IsArchive)
           fs0 == [personal |-> personal_dir, archived |-> archived_dir, status |-> "ok",
                   calls |-> 0, fail_at |-> fail_at]
           fs == IF items = <<>> THEN fs0 ELSE Persist(dry_run, decayed, archived, fs0)
       IN  /\ personal_dir' = fs.personal
           /\ archived_dir' = fs.archived
           /\ ret' = [op |-> "run_decay", dry_run |-> dry_run, status |-> fs.status,
                      decayed |-> decayed, archived |-> archived,
                      before |-> [personal |-> personal_dir, archived |-> archived_dir],
                      at |-> now]
    /\ runs' = runs + 1
    /\ UNCHANGED <<observations, now, args>>

\* Time passes between two invocations.
Tick ==
    /\ now < MaxNow
    /\ now' = now + 1
    /\ UNCHANGED <<personal_dir, archived_dir, observations, args, ret, runs>>

---------------------------------------------------------------------------
(* The decay engine on its own: any initial active collection, then       *)
(* run_decay in either mode, with time passing in between.                *)

OneWeek == 7 * TicksPerDay

Confs == {3200, 3500, 8000}

\* (confidence, last_observed) of rules observed whole weeks ago.
AgedRules == Confs \X {Iso(0 - OneWeek), Iso(0 - 4 * OneWeek)}

\* (confidence, last_observed) of the rules a hand-written file may hold.
RuleOptions ==
    AgedRules
    \cup ({8000} \X {NoLastObserved, BadLastObserved, Iso(0), Iso(1), Iso(-1)})
    \cup ({3000} \X {Iso(0 - TicksPerDay - 1)})
    \cup ({100} \X {Iso(0 - 4 * OneWeek)})

\* The rule ids each initial file holds, in file order.
Layout == [f \in {"team.md", "low.yaml"} |->
              IF f = "team.md" THEN <<"team-a", "team-b">> ELSE <<"low-inst">>]

Bodies(f) ==
    UNION {[1..k -> IF f = "team.md" THEN RuleOptions ELSE AgedRules] :
              k \in 0..Len(Layout[f])}

MakeFile(f, body) == [i \in DOMAIN body |-> Instinct(Layout[f][i], body[i][1], body[i][2])]

FileOptions(f) ==
    {[present |-> FALSE, body |-> <<>>]}
    \cup {[present |-> TRUE, body |-> b] : b \in Bodies(f)}

Assemble(team, low) ==
    [f \in (IF team.present THEN {"team.md"} ELSE {})
           \cup (IF low.present THEN {"low.yaml"} ELSE {}) |->
        IF f = "team.md" THEN MakeFile(f, team.body) ELSE MakeFile(f, low.body)]

InitialCollections ==
    {Assemble(team, low) : team \in FileOptions("team.md"), low \in FileOptions("low.yaml")}

NoRet == [op |-> "none"]

InitDecay ==
    /\ personal_dir \in InitialCollections
    /\ archived_dir = NoFiles
    /\ observations = <<>>
    /\ now = 0
    /\ args = <<>>
    /\ ret = NoRet
    /\ runs = 0

NextDecay == (\E dry_run \in BOOLEAN : run_decay(dry_run, NoFault)) \/ Tick

SpecDecay == InitDecay /\ [][NextDecay]_vars

\* The decay engine on a disk that may refuse one call of a run.
NextFaults ==
    \E dry_run \in BOOLEAN, fail_at \in NoFault..MaxFailAt : run_decay(dry_run, fail_at)

SpecFaults == InitDecay /\ [][NextFaults]_vars

---------------------------------------------------------------------------
(* instinct_learn: loading, grouping and the three detectors *)

\* A line of the log.  kind "json" is a line holding a JSON object; `failed`
\* says that its output holds one of the failure keywords.
Obs(session, event, tool, failed) ==
    [kind |-> "json", session |-> session, event |-> event, tool |-> tool,
     failed |-> failed]
MalformedLine == [kind |-> "malformed", session |-> "", event |-> "", tool |-> "", failed |-> FALSE]
BlankLine == [kind |-> "blank", session |-> "", event |-> "", tool |-> "", failed |-> FALSE]

\* A line holding a JSON value that is not an object (42, "text", [1], null).
NonRecordLine == [kind |-> "value", session |-> "", event |-> "", tool |-> "", failed |-> FALSE]

\* The path at which no log exists, as the log whose one entry says so.
MissingLog == <<[kind |-> "missing", session |-> "", event |-> "", tool |-> "", failed |-> FALSE]>>

\* obs_path.exists()
Exists(log) == log # MissingLog

\* json.loads(line) returns: the line holds a JSON value, object or not.
IsJson(line) == line.kind \in {"json", "value"}

\* Blank lines and lines that raise JSONDecodeError are skipped; a log that
\* does not exist loads as the empty list.
_load_observations(lines) ==
    IF ~Exists(lines) THEN <<>> ELSE SelectSeq(lines, IsJson)

\* obs.get(...) is defined on dicts only; on any other value it raises
\* AttributeError, which nothing catches.
HasGet(obs) == obs.kind = "json"

\* sessions[sid].append(obs), the dict keeping the order in which the
\* session ids first appear: a sequence of [sid, obs].
RECURSIVE GroupInto(_, _)
GroupInto(obs_list, sessions) ==
    IF obs_list = <<>> THEN sessions
    ELSE LET o == Head(obs_list)
             known == {k \in DOMAIN sessions : sessions[k].sid = o.session}
         IN  GroupInto(Tail(obs_list),
                 IF known = {}
                 THEN Append(sessions, [sid |-> o.session, obs |-> <<o>>])
                 ELSE [k \in DOMAIN sessions |->
                          IF k \in known
                          THEN [sessions[k] EXCEPT !.obs = Append(@, o)]
                          ELSE sessions[k]])

_group_by_session(obs_list) == GroupInto(obs_list, <<>>)

\* str.lower() of the tool names of the model.
Lower(tool) ==
    CASE tool = "Grep" -> "grep" [] tool = "Read" -> "read"
      [] tool = "Edit" -> "edit" [] tool = "Write" -> "write"
      [] tool = "Bash" -> "bash" [] tool = "A" -> "a" [] tool = "B" -> "b"
      [] OTHER -> tool

MutatingTools == {"Edit", "Write"}

Candidate(id, trigger, domain, pattern_type, evidence, occurrences) ==
    [id |-> id, trigger |-> trigger, domain |-> domain,
     pattern_type |-> pattern_type, evidence |-> evidence,
     occurrences |-> occurrences]

\* One candidate per adjacent pair using the same Edit/Write tool.
RECURSIVE CorrectionsFrom(_, _)
CorrectionsFrom(session_obs, i) ==
    IF i > Len(session_obs) THEN <<>>
    ELSE LET prev == session_obs[i - 1]
             curr == session_obs[i]
         IN  (IF prev.tool # curr.tool THEN <<>>
              ELSE IF prev.tool \notin MutatingTools THEN <<>>
              ELSE <<Candidate("correction-" \o Lower(prev.tool) \o "-pattern",
                               "when using " \o prev.tool, "workflow",
                               "user_correction",
                               "Consecutive " \o prev.tool \o " calls detected", 0)>>)
             \o CorrectionsFrom(session_obs, i + 1)

_detect_user_corrections(session_obs) == CorrectionsFrom(session_obs, 2)

\* One candidate per failed Bash completion followed by Edit/Write.
RECURSIVE ErrorFixesFrom(_, _)
ErrorFixesFrom(session_obs, i) ==
    IF i > Len(session_obs) - 1 THEN <<>>
    ELSE LET curr == session_obs[i]
             nxt == session_obs[i + 1]
         IN  (IF curr.tool # "Bash" \/ curr.event # "tool_complete" THEN <<>>
              ELSE IF ~curr.failed THEN <<>>
              ELSE IF nxt.tool \in MutatingTools
                   THEN <<Candidate("error-then-fix-pattern", "when a command fails",
                                    "debugging", "error_fix",
                                    "Bash error followed by " \o nxt.tool, 0)>>
                   ELSE <<>>)
             \o ErrorFixesFrom(session_obs, i + 1)

_detect_error_fixes(session_obs) == ErrorFixesFrom(session_obs, 1)

IsToolStart(o) == o.event = "tool_start"

\* tools = [o.get('tool') for o in session_obs if o.get('event') == 'tool_start']
StartedTools(session_obs) ==
    LET started == SelectSeq(session_obs, IsToolStart)
    IN  [i \in DOMAIN started |-> started[i].tool]

\* for i in range(len(tools) - window_size + 1): tuple(tools[i:i + window_size])
RECURSIVE WindowsOfSize(_, _, _)
WindowsOfSize(tools, window_size, i) ==
    IF i + window_size - 1 > Len(tools) THEN <<>>
    ELSE <<SubSeq(tools, i, i + window_size - 1)>>
         \o WindowsOfSize(tools, window_size, i + 1)

\* for window_size in range(3, min(6, len(tools) + 1))
RECURSIVE WindowsFrom(_, _)
WindowsFrom(tools, window_size) ==
    IF window_size > Min(MaxWindow, Len(tools)) THEN <<>>
    ELSE WindowsOfSize(tools, window_size, 1) \o WindowsFrom(tools, window_size + 1)

RECURSIVE SessionWindows(_)
SessionWindows(sessions) ==
    IF sessions = <<>> THEN <<>>
    ELSE WindowsFrom(StartedTools(Head(sessions).obs), MinWindow)
         \o SessionWindows(Tail(sessions))

\* seq_counter[seq] += 1; the Counter keeps its keys in first-seen order.
RECURSIVE CountInto(_, _)
CountInto(windows, seq_counter) ==
    IF windows = <<>> THEN seq_counter
    ELSE LET seq == Head(windows)
             known == {k \in DOMAIN seq_counter : seq_counter[k].seq = seq}
         IN  CountInto(Tail(windows),
                 IF known = {}
                 THEN Append(seq_counter, [seq |-> seq, count |-> 1])
                 ELSE [k \in DOMAIN seq_counter |->
                          IF k \in known
                          THEN [seq_counter[k] EXCEPT !.count = @ + 1]
                          ELSE seq_counter[k]])

RECURSIVE Join(_, _)
Join(parts, sep) ==
    IF parts = <<>> THEN ""
    ELSE IF Len(parts) = 1 THEN Head(parts)
    ELSE Head(parts) \o sep \o Join(Tail(parts), sep)

\* "workflow-" and the lowercased tool names joined by "-".  The tool names
\* of the model are alphanumeric and short, so that the regular expression
\* replaces nothing and the cut at 40 characters is not reached.
WorkflowId(seq) == "workflow-" \o Join([i \in DOMAIN seq |-> Lower(seq[i])], "-")

SkipCount_off_by_one(count, min_occurrences) == count <= min_occurrences

\* if count < min_occurrences: continue
SkipCount(count, min_occurrences) == count < min_occurrences

RECURSIVE WorkflowCandidates(_, _)
WorkflowCandidates(seq_counter, min_occurrences) ==
    IF seq_counter = <<>> THEN <<>>
    ELSE LET seq == Head(seq_counter).seq
             count == Head(seq_counter).count
         IN  (IF SkipCount(count, min_occurrences) THEN <<>>
              ELSE <<Candidate(WorkflowId(seq),
                               "when following " \o Join(seq, " -> ") \o " workflow",
                               "workflow", "repeated_workflow",
                               "Sequence appeared " \o ToString(count) \o " times",
                               count)>>)
             \o WorkflowCandidates(Tail(seq_counter), min_occurrences)

_detect_repeated_workflows(sessions, min_occurrences) ==
    WorkflowCandidates(CountInto(SessionWindows(sessions), <<>>), min_occurrences)

---------------------------------------------------------------------------
(* instinct_learn._deduplicate *)

AlreadySeen_never(cid, seen_ids) == FALSE

\* if cid in seen_ids: continue
AlreadySeen(cid, seen_ids) == cid \in seen_ids

BoostedConf_uncapped(old_conf) == old_conf + confidence_boost

\* new_conf = min(old_conf + confidence_boost, 1.0)
BoostedConf(old_conf) == Min(old_conf + confidence_boost, Scale)

\* next((e for e in existing_instincts if e.get('id') == cid), None)
FirstWithId(existing_instincts, cid) ==
    existing_instincts[CHOOSE i \in DOMAIN existing_instincts :
        /\ existing_instincts[i].id = cid
        /\ \A j \in 1..(i - 1) : existing_instincts[j].id # cid]

RECURSIVE DedupLoop(_, _, _, _)
DedupLoop(candidates, existing_instincts, seen_ids, out) ==
    IF candidates = <<>> THEN out
    ELSE LET cand == Head(candidates)
             cid == cand.id
             existing_ids == {existing_instincts[i].id : i \in DOMAIN existing_instincts}
         IN  IF AlreadySeen(cid, seen_ids)
             THEN DedupLoop(Tail(candidates), existing_instincts, seen_ids, out)
             ELSE IF cid \in existing_ids
             THEN LET existing == FirstWithId(existing_instincts, cid)
                      old_conf == existing.confidence
                  IN  DedupLoop(Tail(candidates), existing_instincts, seen_ids \cup {cid},
                          [out EXCEPT !.boosted =
                              Append(@, [instinct |-> existing,
                                         old_confidence |-> old_conf,
                                         new_confidence |-> BoostedConf(old_conf)])])
             ELSE DedupLoop(Tail(candidates), existing_instincts, seen_ids \cup {cid},
                      [out EXCEPT !.new_candidates = Append(@, cand)])

_deduplicate_ignoring_existing(candidates, existing_instincts) ==
    DedupLoop(candidates, <<>>, {}, [new_candidates |-> <<>>, boosted |-> <<>>])

_deduplicate(candidates, existing_instincts) ==
    DedupLoop(candidates, existing_instincts, {},
              [new_candidates |-> <<>>, boosted |-> <<>>])

---------------------------------------------------------------------------
(* instinct_learn.run_learn *)

\* The caller's existing_instincts: every instinct of the active collection.
RECURSIVE LoadFiles(_, _)
LoadFiles(files, dir) ==
    IF files = <<>> THEN <<>>
    ELSE dir[Head(files)] \o LoadFiles(Tail(files), dir)

load_all_instincts(dir) == LoadFiles(SortedFiles(dir), dir)

\* Per session the corrections and the error fixes, then the workflows of
\* all sessions.
RECURSIVE SessionCandidates(_)
SessionCandidates(sessions) ==
    IF sessions = <<>> THEN <<>>
    ELSE _detect_user_corrections(Head(sessions).obs)
         \o _detect_error_fixes(Head(sessions).obs)
         \o SessionCandidates(Tail(sessions))

AllCandidates(sessions) ==
    SessionCandidates(sessions)
    \o _detect_repeated_workflows(sessions, default_min_occurrences)

\* re.sub(r'[^a-z0-9-]', '', cid) + '.yaml'; the ids of the model hold no
\* other characters.
FileNameOf(cid) == cid \o ".yaml"

\* The file run_learn writes for a candidate, as it parses.
LearnedFile(cand, clock) ==
    <<[id |-> cand.id, confidence |-> initial_confidence,
       last_observed |-> Iso(clock),
       content |-> [pattern_type |-> cand.pattern_type, evidence |-> cand.evidence]]>>

\* The loop over new_candidates: a file that exists is left alone.
RECURSIVE WriteNew(_, _, _)
WriteNew(new_candidates, out, clock) ==
    IF new_candidates = <<>> THEN out
    ELSE LET cand == Head(new_candidates)
             filename == FileNameOf(cand.id)
         IN  WriteNew(Tail(new_candidates),
                 IF filename \in DOMAIN out.dir THEN out
                 ELSE [dir |-> WriteText(out.dir, filename, LearnedFile(cand, clock)),
                       written |-> out.written + 1,
                       files |-> Append(out.files, filename)],
                 clock)

\* run_learn from its first statement to its return (or to the exception
\* that leaves it), as a function of what it reads.
RunLearn(log, dir, execute, clock) ==
    LET loaded == _load_observations(log)
        raised == loaded # <<>> /\ \E i \in DOMAIN loaded : ~HasGet(loaded[i])
        sessions == _group_by_session(loaded)
        all_candidates == AllCandidates(sessions)
        existing_instincts == load_all_instincts(dir)
        dd == _deduplicate(all_candidates, existing_instincts)
        nothing == [dir |-> dir, written |-> 0, files |-> <<>>]
        stage == IF loaded = <<>> THEN "no observations"
                 ELSE IF raised THEN "raised"
                 ELSE IF all_candidates = <<>> THEN "no patterns"
                 ELSE IF ~execute THEN "preview"
                 ELSE "wrote"
        out == IF stage = "wrote" THEN WriteNew(dd.new_candidates, nothing, clock)
               ELSE nothing
    IN  [status |-> IF stage = "raised" THEN "AttributeError" ELSE "ok",
         stage |-> stage,
         new_candidates |-> IF stage \in {"preview", "wrote"}
                            THEN dd.new_candidates ELSE <<>>,
         boosted |-> IF stage \in {"preview", "wrote"} THEN dd.boosted ELSE <<>>,
         written |-> out.written, files |-> out.files, dir |-> out.dir]

run_learn(execute) ==
    /\ runs < MaxRuns
    /\ LET out == RunLearn(observations, personal_dir, execute, now)
       IN  /\ personal_dir' = out.dir
           /\ ret' = [op |-> "run_learn", execute |-> execute, status |-> out.status,
                      stage |-> out.stage,
                      new_candidates |-> out.new_candidates,
                      boosted |-> out.boosted,
                      written |-> out.written, files |-> out.files,
                      before |-> [personal |-> personal_dir, archived |-> archived_dir],
                      at |-> now]
    /\ runs' = runs + 1
    /\ UNCHANGED <<archived_dir, observations, now, args>>

---------------------------------------------------------------------------
(* The life of the rules: a log, an active collection, then mining and     *)
(* decay runs in any order, with time passing in between.                  *)

Start(tool) == Obs("", "tool_start", tool, FALSE)

SessionShapes ==
    {<<Start("Grep"), Start("Read"), Start("Edit")>>,
     <<Start("Edit"), Start("Read"), Start("Grep")>>,
     <<Start("Edit"), Start("Edit")>>,
     <<Obs("", "tool_complete", "Bash", TRUE), Start("Edit")>>}

SessionIds == <<"s1", "s2", "s3">>

InSession(shape, sid) == [i \in DOMAIN shape |-> [shape[i] EXCEPT !.session = sid]]

RECURSIVE LogOf(_, _)
LogOf(shapes, k) ==
    IF k > Len(shapes) THEN <<>>
    ELSE InSession(shapes[k], SessionIds[k]) \o LogOf(shapes, k + 1)

Logs ==
    UNION {{LogOf(shapes, 1) : shapes \in [1..n -> SessionShapes]} :
              n \in 0..Len(SessionIds)}
    \cup UNION {{<<MalformedLine, BlankLine>> \o LogOf(shapes, 1) \o <<MalformedLine>> :
                    shapes \in [1..n -> SessionShapes]} : n \in 0..Len(SessionIds)}

LearnedCollections ==
    {NoFiles}
    \cup {[f \in {"workflow-grep-read-edit.yaml"} |->
              <<[id |-> "workflow-grep-read-edit", confidence |-> c,
                 last_observed |-> Iso(0 - 4 * OneWeek),
                 content |-> [pattern_type |-> "repeated_workflow",
                              evidence |-> "Sequence appeared 3 times"]]>>]
          : c \in {200, 9800}}

Init ==
    /\ personal_dir \in LearnedCollections
    /\ archived_dir = NoFiles
    /\ observations \in Logs
    /\ now = 0
    /\ args = <<>>
    /\ ret = NoRet
    /\ runs = 0

Next ==
    \/ \E execute \in BOOLEAN : run_learn(execute)
    \/ \E dry_run \in BOOLEAN : run_decay(dry_run, NoFault)
    \/ Tick

Spec == Init /\ [][Next]_vars

---------------------------------------------------------------------------
(* Mining on its own: any log the observer may leave (or none), an active *)
(* collection, then run_learn in either mode.                              *)

\* log with `line` put in front of its entry at position k (at the end when
\* k is past the last entry).
InsertAt(log, k, line) ==
    LET at == Min(k, Len(log) + 1)
    IN  [i \in 1..(Len(log) + 1) |->
            IF i < at THEN log[i] ELSE IF i = at THEN line ELSE log[i - 1]]

ShortLogs ==
    UNION {{LogOf(shapes, 1) : shapes \in [1..n -> SessionShapes]} : n \in 0..MaxJunkSessions}

MiningLogs ==
    Logs
    \cup {MissingLog}
    \cup {InsertAt(log, k, line) :
             log \in ShortLogs, k \in 1..MaxJunkAt,
             line \in {MalformedLine, BlankLine, NonRecordLine}}
    \cup {InsertAt(LogOf(<<shape, shape, shape>>, 1), k, line) :
             shape \in SessionShapes, k \in {1, 5},
             line \in {MalformedLine, NonRecordLine}}

InitMining ==
    /\ personal_dir \in LearnedCollections
    /\ archived_dir = NoFiles
    /\ observations \in MiningLogs
    /\ now = 0
    /\ args = <<>>
    /\ ret = NoRet
    /\ runs = 0

NextMining == \E execute \in BOOLEAN : run_learn(execute)

SpecMining == InitMining /\ [][NextMining]_vars

---------------------------------------------------------------------------
(* _deduplicate on its own: any candidate list against any rule set *)

SeqsUpTo(S, n) == UNION {[1..k -> S] : k \in 0..n}

CandidateOptions ==
    {Candidate(id, "when testing", "workflow", "user_correction", ev, 0) :
        id \in {"x", "y"}, ev \in {"first evidence", "other evidence"}}

ExistingOptions ==
    {Instinct(id, c, NoLastObserved) : id \in {"x", "z"}, c \in {6000, 9800}}

InitDedup ==
    /\ args \in [candidates : SeqsUpTo(CandidateOptions, MaxCandidates),
                 existing_instincts : SeqsUpTo(ExistingOptions, MaxExisting)]
    /\ personal_dir = NoFiles
    /\ archived_dir = NoFiles
    /\ observations = <<>>
    /\ now = 0
    /\ ret = NoRet
    /\ runs = 0

CallDeduplicate ==
    /\ ret = NoRet
    /\ LET dd == _deduplicate(args.candidates, args.existing_instincts)
       IN  ret' = [op |-> "_deduplicate", new_candidates |-> dd.new_candidates,
                   boosted |-> dd.boosted]
    /\ runs' = runs + 1
    /\ UNCHANGED <<personal_dir, archived_dir, observations, now, args>>

NextDedup == CallDeduplicate

SpecDedup == InitDedup /\ [][NextDedup]_vars

---------------------------------------------------------------------------
(* _detect_repeated_workflows on its own: any two sessions over two tools, *)
(* with or without the completion events between the starts.              *)

WorkflowTools == {"A", "B"}

\* The observations of a session that used `tools` in this order.
RECURSIVE SessionOf(_, _, _)
SessionOf(tools, sid, with_completes) ==
    IF tools = <<>> THEN <<>>
    ELSE <<Obs(sid, "tool_start", Head(tools), FALSE)>>
         \o (IF with_completes
             THEN <<Obs(sid, "tool_complete", Head(tools), FALSE)>> ELSE <<>>)
         \o SessionOf(Tail(tools), sid, with_completes)

WorkflowSessions ==
    {<<[sid |-> "s1", obs |-> SessionOf(t1, "s1", wc)]>> :
        t1 \in SeqsUpTo(WorkflowTools, MaxTools), wc \in BOOLEAN}
    \cup {<<[sid |-> "s1", obs |-> SessionOf(t1, "s1", wc)],
            [sid |-> "s2", obs |-> SessionOf(t2, "s2", wc)]>> :
        t1 \in SeqsUpTo(WorkflowTools, MaxTools),
        t2 \in SeqsUpTo(WorkflowTools, MaxTools), wc \in BOOLEAN}

InitWorkflows ==
    /\ args \in [sessions : WorkflowSessions, min_occurrences : {2, 3}]
    /\ personal_dir = NoFiles
    /\ archived_dir = NoFiles
    /\ observations = <<>>
    /\ now = 0
    /\ ret = NoRet
    /\ runs = 0

CallDetectRepeatedWorkflows ==
    /\ ret = NoRet
    /\ ret' = [op |-> "_detect_repeated_workflows",
               candidates |-> _detect_repeated_workflows(args.sessions,
                                                         args.min_occurrences)]
    /\ runs' = runs + 1
    /\ UNCHANGED <<personal_dir, archived_dir, observations, now, args>>

NextWorkflows == CallDetectRepeatedWorkflows

SpecWorkflows == InitWorkflows /\ [][NextWorkflows]_vars

---------------------------------------------------------------------------
(* Properties of the decay engine (checked under SpecDecay) *)

AfterDecay == ret.op = "run_decay"
AfterExecutedDecay == AfterDecay /\ ~ret.dry_run /\ ret.status = "ok"

Items == ret.decayed \o ret.archived
ItemsFor(f, id) == {i \in DOMAIN Items : Items[i].file = f /\ Items[i].instinct.id = id}

\* The rules of the active collection before the last run, with their files.
RulesBefore ==
    UNION {{[file |-> f, inst |-> ret.before.personal[f][i]] :
               i \in DOMAIN ret.before.personal[f]} : f \in DOMAIN ret.before.personal}

\* C1: after an executed run_decay, a rule that decayed to exactly
\* min_confidence is still in the active collection and not in the archive,
\* and a rule that decayed below min_confidence is absent from the active
\* collection and stored in the archive with its decayed confidence (as
\* written, to two decimals).
C1_ArchivalBoundary ==
    AfterExecutedDecay =>
        \A i \in DOMAIN Items :
            LET id == Items[i].instinct.id
            IN  /\ Items[i].new = min_confidence =>
                    /\ id \in IdsIn(personal_dir)
                    /\ id \notin IdsIn(archived_dir)
                /\ Items[i].new < min_confidence =>
                    /\ id \notin IdsIn(personal_dir)
                    /\ \E r \in Stored(archived_dir, id) :
                           r.confidence = Format2f(Items[i].new)

\* C2: after an executed run_decay that completed, every rule that was in
\* the active collection before the run is in exactly one of the active and
\* the archived collection.
C2_OwnershipConserved ==
    AfterExecutedDecay =>
        \A id \in IdsIn(ret.before.personal) :
            (id \in IdsIn(personal_dir)) # (id \in IdsIn(archived_dir))

\* C3: run_decay with dry_run leaves both collections exactly as they were.
C3_DryRunPurity ==
    (AfterDecay /\ ret.dry_run) =>
        /\ personal_dir = ret.before.personal
        /\ archived_dir = ret.before.archived

\* C3 witness: a dry run that reported rules to decay and rules to archive.
C3_Witness ==
    /\ AfterDecay /\ ret.dry_run
    /\ ret.decayed # <<>> /\ ret.archived # <<>>
    /\ Len(ret.decayed) + Len(ret.archived) >= 3

\* C4: after an executed run_decay, a rule whose last_observed is missing
\* or unparseable is stored in its file of the active collection exactly as
\* before the run.
C4_NoOpStability ==
    AfterExecutedDecay =>
        \A r \in RulesBefore :
            r.inst.last_observed.kind # "iso" =>
                /\ r.file \in DOMAIN personal_dir
                /\ \E i \in DOMAIN personal_dir[r.file] : personal_dir[r.file][i] = r.inst
                /\ r.inst.id \notin IdsIn(archived_dir)

\* The integer nearest to num / den (den odd, so there are no ties), not
\* below zero: max(0, round(c - w * r, 4)) for c - w * r = num / den units.
IsClampedNearest(n, num, den) ==
    \/ n = 0 /\ 2 * num < den
    \/ n > 0 /\ 2 * (n * den - num) < den /\ 2 * (num - n * den) < den

\* What the run assigned to rule r: the new confidence of its item, or its
\* old confidence when the run made no item for it (skipped unchanged).
Assigned(r) ==
    IF ItemsFor(r.file, r.inst.id) = {} THEN r.inst.confidence
    ELSE Items[CHOOSE i \in ItemsFor(r.file, r.inst.id) : TRUE].new

Skipped(r) == ItemsFor(r.file, r.inst.id) = {}

\* C5 as stated: with w the exact time elapsed since last_observed, in
\* weeks, the run assigns max(0, round(c - w * r, 4)) when w > 0 and skips
\* the rule when w <= 0.
C5_DecayArithmeticExactWeeks ==
    AfterDecay =>
        \A r \in RulesBefore :
            r.inst.last_observed.kind = "iso" =>
                LET elapsed == ret.at - r.inst.last_observed.t
                    den == DaysPerWeek * TicksPerDay
                IN  IF elapsed > 0
                    THEN IsClampedNearest(Assigned(r),
                             r.inst.confidence * den - elapsed * decay_rate, den)
                    ELSE Skipped(r)

\* C5 amended: with d the whole days elapsed since last_observed (fractions
\* of a day dropped) and w = d / 7, the run assigns
\* max(0, round(c - w * r, 4)) when d > 0 and skips the rule when d <= 0.
C5_DecayArithmeticWholeDays ==
    AfterDecay =>
        \A r \in RulesBefore :
            r.inst.last_observed.kind = "iso" =>
                LET elapsed == ret.at - r.inst.last_observed.t
                    d == CHOOSE k \in (IF elapsed < 0 THEN elapsed ELSE 0)
                                      ..(IF elapsed < 0 THEN -1 ELSE elapsed) :
                             k * TicksPerDay <= elapsed /\ elapsed < (k + 1) * TicksPerDay
                IN  IF d > 0
                    THEN IsClampedNearest(Assigned(r),
                             r.inst.confidence * DaysPerWeek - d * decay_rate, DaysPerWeek)
                    ELSE Skipped(r)

\* C5 witness: a run that decayed a rule observed a day and a fraction ago
\* by one day's worth, and skipped a rule observed a fraction of a day ago.
C5_Witness ==
    /\ AfterDecay
    /\ \E i \in DOMAIN Items :
           /\ (ret.at - Items[i].instinct.last_observed.t) % TicksPerDay # 0
           /\ Items[i].new < Items[i].old
    /\ \E r \in RulesBefore :
           /\ r.inst.last_observed.kind = "iso"
           /\ ret.at - r.inst.last_observed.t > 0
           /\ Skipped(r)

---------------------------------------------------------------------------
(* Properties of _deduplicate (checked under SpecDedup) *)

AfterDeduplicate == ret.op = "_deduplicate"

CandidateIds == {args.candidates[i].id : i \in DOMAIN args.candidates}
ExistingIds == {args.existing_instincts[i].id : i \in DOMAIN args.existing_instincts}

NewEntries(id) == {i \in DOMAIN ret.new_candidates : ret.new_candidates[i].id = id}
BoostEntries(id) == {i \in DOMAIN ret.boosted : ret.boosted[i].instinct.id = id}

\* C6: every distinct candidate id has exactly one outcome: one boosted
\* entry and no new entry when an existing rule has the id, one new entry
\* and no boosted entry when none has, however often the id occurs; and no
\* outcome is for an id that was not a candidate.
C6_DedupIdempotence ==
    AfterDeduplicate =>
        /\ \A id \in CandidateIds :
              IF id \in ExistingIds
              THEN Cardinality(BoostEntries(id)) = 1 /\ NewEntries(id) = {}
              ELSE Cardinality(NewEntries(id)) = 1 /\ BoostEntries(id) = {}
        /\ Len(ret.new_candidates) + Len(ret.boosted) = Cardinality(CandidateIds)

\* C6 witness: an id fed twice that an existing rule has, and an id fed
\* twice that none has, gave one boosted and one new entry.
C6_Witness ==
    /\ AfterDeduplicate
    /\ \E id \in CandidateIds \cap ExistingIds :
          Cardinality({i \in DOMAIN args.candidates : args.candidates[i].id = id}) >= 2
    /\ Len(args.candidates) = 3
    /\ Len(ret.new_candidates) = 1
    /\ Len(ret.boosted) = 1

---------------------------------------------------------------------------
(* Properties of _detect_repeated_workflows (checked under SpecWorkflows) *)

AfterDetect == ret.op = "_detect_repeated_workflows"

Triples == [1..MinWindow -> WorkflowTools]

\* The places (session, position) where the tool_start events of the
\* sessions spell q.
Occurrences(q) ==
    {place \in (DOMAIN args.sessions) \X (1..MaxTools) :
        LET started == StartedTools(args.sessions[place[1]].obs)
        IN  /\ place[2] + Len(q) - 1 <= Len(started)
            /\ \A j \in DOMAIN q : started[place[2] + j - 1] = q[j]}

TotalCount(q) == Cardinality(Occurrences(q))
SessionCount(q) == Cardinality({place[1] : place \in Occurrences(q)})

CandidatesFor(q) == {i \in DOMAIN ret.candidates : ret.candidates[i].id = WorkflowId(q)}

CountMatches(q) ==
    /\ CandidatesFor(q) # {}
    /\ \A i \in CandidatesFor(q) :
          /\ ret.candidates[i].occurrences = TotalCount(q)
          /\ ret.candidates[i].evidence =
                 "Sequence appeared " \o ToString(TotalCount(q)) \o " times"
          /\ ret.candidates[i].pattern_type = "repeated_workflow"

\* C8 as stated: a 3-tool sequence appearing in exactly min_occurrences - 1
\* sessions yields no candidate; one appearing in min_occurrences sessions
\* yields a candidate whose count is the total number of occurrences.
C8_ThresholdBySessions ==
    AfterDetect =>
        \A q \in Triples :
            /\ SessionCount(q) = args.min_occurrences - 1 => CandidatesFor(q) = {}
            /\ SessionCount(q) = args.min_occurrences => CountMatches(q)

\* C8 amended: a 3-tool sequence occurring exactly min_occurrences - 1
\* times in total, over all sessions, yields no candidate; one occurring at
\* least min_occurrences times in total (as it does when it appears in
\* min_occurrences sessions) yields a candidate whose count is the total
\* number of occurrences.
C8_ThresholdByOccurrences ==
    AfterDetect =>
        \A q \in Triples :
            /\ TotalCount(q) = args.min_occurrences - 1 => CandidatesFor(q) = {}
            /\ TotalCount(q) >= args.min_occurrences => CountMatches(q)
            /\ SessionCount(q) = args.min_occurrences => CountMatches(q)

\* C8 witness: one sequence short of the threshold by one occurrence, and
\* another that reaches it although it appears in too few sessions.
C8_Witness ==
    /\ AfterDetect
    /\ \E q \in Triples :
          TotalCount(q) = args.min_occurrences - 1 /\ CandidatesFor(q) = {}
    /\ \E q \in Triples :
          /\ SessionCount(q) < args.min_occurrences
          /\ TotalCount(q) >= args.min_occurrences
          /\ CountMatches(q)

---------------------------------------------------------------------------
(* Properties of the life of the rules (checked under Spec) *)

AfterLearn == ret.op = "run_learn"
AfterExecutedLearn == AfterLearn /\ ret.execute

InRange(c) == 0 <= c /\ c <= Scale

StoredConfidences(dir) ==
    UNION {{dir[n][i].confidence : i \in DOMAIN dir[n]} : n \in DOMAIN dir}

\* C7: every confidence stored in either collection, every confidence a
\* decay run computes and every confidence a boost computes is in
\* [0.0, 1.0], and a boost is min(old + 0.05, 1.0).
C7_ConfidenceInRange ==
    /\ \A c \in StoredConfidences(personal_dir) \cup StoredConfidences(archived_dir) :
          InRange(c)
    /\ AfterDecay => \A i \in DOMAIN Items : InRange(Items[i].new)
    /\ AfterLearn =>
          \A i \in DOMAIN ret.boosted :
              LET old == ret.boosted[i].old_confidence
                  new == ret.boosted[i].new_confidence
              IN  /\ InRange(new)
                  /\ new = (IF old + confidence_boost <= Scale
                            THEN old + confidence_boost ELSE Scale)

\* C7 witness: a mining run whose boost met the cap.
C7_Witness ==
    /\ AfterLearn
    /\ \E i \in DOMAIN ret.boosted :
          /\ ret.boosted[i].old_confidence + confidence_boost > Scale
          /\ ret.boosted[i].new_confidence = Scale

\* The log is three sessions, each the tool_start events of the same three
\* different tools in the same order (and lines that do not parse).
ThreeSessionsOf(shape) ==
    /\ Len(shape) = 3
    /\ \A i \in 1..3 : shape[i].event = "tool_start"
    /\ Cardinality({shape[i].tool : i \in 1..3}) = 3
    /\ _load_observations(observations) = LogOf(<<shape, shape, shape>>, 1)

ShapeTools(shape) == [i \in DOMAIN shape |-> shape[i].tool]

\* C9: on such a log, an executed run_learn on an empty active collection
\* writes exactly one file, a repeated_workflow rule whose evidence cites 3;
\* an executed run_learn given that rule as the one existing rule writes no
\* file and reports exactly one boosted entry.
C9_EndToEnd ==
    AfterExecutedLearn =>
        \A shape \in SessionShapes :
            ThreeSessionsOf(shape) =>
                LET cid == WorkflowId(ShapeTools(shape))
                    f == FileNameOf(cid)
                IN  /\ ret.before.personal = NoFiles =>
                          /\ ret.written = 1
                          /\ DOMAIN personal_dir = {f}
                          /\ Len(personal_dir[f]) = 1
                          /\ personal_dir[f][1].id = cid
                          /\ personal_dir[f][1].content.pattern_type = "repeated_workflow"
                          /\ personal_dir[f][1].content.evidence = "Sequence appeared 3 times"
                    /\ (/\ DOMAIN ret.before.personal = {f}
                        /\ Len(ret.before.personal[f]) = 1
                        /\ ret.before.personal[f][1].id = cid) =>
                          /\ ret.written = 0
                          /\ personal_dir = ret.before.personal
                          /\ ret.new_candidates = <<>>
                          /\ Len(ret.boosted) = 1
                          /\ ret.boosted[1].instinct.id = cid

\* C9 witness: the second of two executed mining runs over such a log, the
\* first of which wrote the rule on an empty collection.
C9_Witness ==
    /\ AfterExecutedLearn
    /\ runs = 2
    /\ \E shape \in SessionShapes : ThreeSessionsOf(shape)
    /\ archived_dir = NoFiles
    /\ Cardinality(DOMAIN ret.before.personal) = 1
    /\ \A f \in DOMAIN ret.before.personal :
          /\ ret.before.personal[f][1].confidence = initial_confidence
          /\ ret.before.personal[f][1].last_observed = Iso(0)
    /\ ret.written = 0
    /\ Len(ret.boosted) = 1

\* C10: after an executed run_learn, every rule it reports as boosted is
\* stored in the active collection with the boosted confidence,
\* min(old + 0.05, 1.0).
C10_BoostPersisted ==
    AfterExecutedLearn =>
        \A i \in DOMAIN ret.boosted :
            \E r \in Stored(personal_dir, ret.boosted[i].instinct.id) :
                r.confidence = Min(ret.boosted[i].old_confidence + confidence_boost, Scale)

---------------------------------------------------------------------------
(* C11: lines of the log that are not structured records *)

\* The line parses as a structured record (a JSON object).
ParsesAsRecord(line) == line.kind = "json"

\* The same log with the lines removed that do not parse as a record.
WithoutMalformed(log) ==
    IF ~Exists(log) THEN log ELSE SelectSeq(log, ParsesAsRecord)

\* C11: malformed log lines never abort mining.  Every run_learn completes,
\* and its candidates, boosts and written files are those of run_learn on
\* the same log without the lines that do not parse as a structured
\* record; on an empty or missing log the run succeeds and writes nothing.
C11_MalformedLinesSkipped ==
    AfterLearn =>
        LET clean == RunLearn(WithoutMalformed(observations), ret.before.personal,
                              ret.execute, ret.at)
        IN  /\ ret.status = "ok"
            /\ ret.new_candidates = clean.new_candidates
            /\ ret.boosted = clean.boosted
            /\ ret.files = clean.files
            /\ personal_dir = clean.dir
            /\ (observations = <<>> \/ ~Exists(observations)) =>
                   /\ ret.written = 0
                   /\ personal_dir = ret.before.personal

\* The part of C11 the code keeps: lines json.loads rejects, blank lines,
\* an empty log and a missing log.
C11_UnparseableLinesSkipped ==
    (AfterLearn /\ \A i \in DOMAIN observations : observations[i] # NonRecordLine) =>
        LET clean == RunLearn(WithoutMalformed(observations), ret.before.personal,
                              ret.execute, ret.at)
        IN  /\ ret.status = "ok"
            /\ ret.new_candidates = clean.new_candidates
            /\ ret.boosted = clean.boosted
            /\ ret.files = clean.files
            /\ personal_dir = clean.dir
            /\ (observations = <<>> \/ ~Exists(observations)) =>
                   /\ ret.written = 0
                   /\ personal_dir = ret.before.personal

\* A run that wrote a rule from a log holding a line json.loads rejects,
\* and a run on a missing log.
C11_SkippedAndWrote ==
    /\ AfterExecutedLearn
    /\ \E i \in DOMAIN observations : observations[i] = MalformedLine
    /\ ret.written > 0
C11_MissingLogRun == AfterLearn /\ ~Exists(observations)

---------------------------------------------------------------------------
(* C12: a filesystem call that fails during the persistence phase *)

AfterFailedDecay == AfterDecay /\ ~ret.dry_run /\ ret.status # "ok"

\* The rule is in the archived collection and still in the active one.
InBoth(id) == id \in IdsIn(archived_dir) /\ id \in IdsIn(personal_dir)

\* The rule is gone from the active collection and not in the archive.
InNeither(id) == id \notin IdsIn(archived_dir) /\ id \notin IdsIn(personal_dir)

\* C12: the archive move is all-or-nothing under failure.  After a run_decay
\* in which a write or a removal failed (the failure reaching the caller),
\* no rule of the active collection is left in both collections, and none
\* is left in neither.
C12_ArchiveAllOrNothing ==
    AfterFailedDecay =>
        \A id \in IdsIn(ret.before.personal) : ~InBoth(id) /\ ~InNeither(id)

---------------------------------------------------------------------------
(* C13: run_decay run again at the same instant *)

\* The step is an executed run_decay that follows an executed run_decay
\* with no time passed and nothing done in between.
SecondDecayInARow ==
    /\ AfterExecutedDecay
    /\ ret.at = now
    /\ runs' = runs + 1
    /\ ret'.op = "run_decay"
    /\ ~ret'.dry_run

\* C13: re-running decay does not compound.  A second executed run_decay at
\* the instant of the first leaves every stored confidence and every
\* rule's active/archived placement as the first call left them.
C13_RerunDoesNotCompound ==
    [][SecondDecayInARow =>
          (personal_dir' = personal_dir /\ archived_dir' = archived_dir)]_vars

====
